---- MODULE Spec2Model ----
(***************************************************************************)
(* Model of the PreMed RAG service: the ingestion pipeline                 *)
(* (VectorStoreService.load_json_and_store), the existing-key scan         *)
(* (_get_existing_ids), the search aggregator (search_similar), the        *)
(* /load-json route (load_json) and the /query route (query_questions).    *)
(*                                                                         *)
(* JSON values are strings; a JSON object is a function from field names   *)
(* to strings.  Scores and thresholds are integers in hundredths           *)
(* (0.75 is 75).  An embedding vector is identified by the text it was     *)
(* computed from.                                                          *)
(***************************************************************************)
EXTENDS Integers, Sequences, FiniteSets, TLC

VARIABLES
    store,        \* the Qdrant collection: point id -> [vector, payload]
    pc,           \* per worker: position inside load_json_and_store
    recs,         \* per worker: the list loaded from the JSON file (data)
    bsize,        \* per worker: batch_size
    existing,     \* per worker: existing_ids
    valid,        \* per worker: valid_objects
    bstart,       \* per worker: batch_start
    counter,      \* per worker: point_id_counter
    total,        \* per worker: total_stored
    ret,          \* per worker: the value returned by the call
    written,      \* per worker: the points upserted by the call so far, in order
    store0,       \* per worker: the collection as it was when the call began
    solo,         \* per worker: no other call overlapped this one
    lastDone,     \* the last call that ran alone: its input and the collection it left
    calls,        \* number of ingest calls begun
    exists,       \* the collection exists in Qdrant
    faults,       \* the collaborators (Qdrant, OpenAI) may fail in this behaviour
    log,          \* per worker: the collaborator calls the call has made, in order
    err,          \* per worker: the exception the call raised, "" when none
    via,          \* per worker: "route" when the call came through POST /load-json
    asked,        \* per worker: the batch size the caller supplied
    http,         \* per worker: the status code the route answered with, 0 when none
    path,         \* per worker: what json_file_path names: "ok", "missing", "invalid"
    cands,        \* search: the collection's points scored against the query
    req,          \* search: the request being served
    sent,         \* search: the score_threshold and limit given to query_points
    response,     \* search: the points query_points returned
    results,      \* search: the list returned by search_similar
    spc,          \* search: position of the query path
    scan          \* _get_existing_ids on its own: position, offset, existing_ids,
                  \* and the point identifiers of each page scrolled, in order

ingestVars == <<store, pc, recs, bsize, existing, valid, bstart, counter, total,
                ret, written, store0, solo, lastDone, calls,
                exists, faults, log, err, via, asked, http, path>>
searchVars == <<cands, req, sent, response, results, spc>>
vars == <<ingestVars, searchVars, scan>>

(***************************************************************************)
(* Bounds and program constants                                            *)
(***************************************************************************)
MaxRecords == 2           \* longest input list of a single-call behaviour
MaxCalls == 2             \* ingest calls per multi-call behaviour
DefaultBatchSize == 100   \* load_json_and_store(batch_size=100)
MaxHits == 3              \* most points the collection holds when searched
MaxLimit == 2             \* largest limit a caller asks for
SimilarityThreshold == 75 \* settings.similarity_threshold = 0.75
SchemaThreshold == 40     \* QueryRequest.threshold = Field(0.40, ...)
SchemaLimit == 10         \* QueryRequest.limit = Field(10, ...)
RouteLimit == 10          \* limit=request.limit or 10
OverFetch == 3            \* search_limit = limit * 3
ScrollLimit == 100
MaxPages == 3

Workers == {"w1", "w2"}
BatchSizes == {1, 2, DefaultBatchSize}

None == "<None>"
NoCall == [recs |-> <<>>, store |-> <<>>, valid |-> FALSE]

Min(a, b) == IF a < b THEN a ELSE b

(***************************************************************************)
(* Python helpers                                                          *)
(***************************************************************************)
\* dict.get(k, d)
Get(obj, k, d) == IF k \in DOMAIN obj THEN obj[k] ELSE d

\* truthiness of a str or None
Truthy(v) == v # None /\ v # ""

\* str.strip() on the strings of the model: the only whitespace string is " "
Strip(s) == IF s = " " THEN "" ELSE s

\* str(x) of a JSON string
Str(v) == v

(***************************************************************************)
(* EmbeddingService                                                        *)
(***************************************************************************)
PrepareTextForEmbedding(obj) ==
    LET qt == Get(obj, "QuestionText", "")
        question_text == IF Truthy(qt) THEN qt
                         ELSE Get(obj, "question", Get(obj, "Question", ""))
    IN  IF Truthy(question_text) THEN Str(question_text) ELSE ""

\* a combined text that is built for any visual_context, blank ones included
PrepareTextWithVisualContextUntrimmed(obj) ==
    LET qt == Get(obj, "QuestionText", "")
        question_text == IF Truthy(qt) THEN qt
                         ELSE Get(obj, "question", Get(obj, "Question", ""))
        visual_context == Get(obj, "visual_context", "")
    IN  IF Truthy(visual_context)
        THEN Strip(question_text \o " " \o visual_context)
        ELSE ""

PrepareTextWithVisualContext(obj) ==
    LET qt == Get(obj, "QuestionText", "")
        question_text == IF Truthy(qt) THEN qt
                         ELSE Get(obj, "question", Get(obj, "Question", ""))
        visual_context == Get(obj, "visual_context", "")
    IN  IF Truthy(visual_context) /\ Truthy(Strip(Str(visual_context)))
        THEN Strip(question_text \o " " \o visual_context)
        ELSE ""

\* embed_documents: one vector per text, in order
CreateEmbeddings(texts) == [i \in 1..Len(texts) |-> [of |-> texts[i]]]

(***************************************************************************)
(* Input records                                                           *)
(***************************************************************************)
rMitosis == ("_id" :> "a") @@ ("QuestionText" :> "What is mitosis?")
rDup     == ("_id" :> "a") @@ ("QuestionText" :> "duplicate")
rVisual  == ("_id" :> "b") @@ ("QuestionText" :> "q") @@ ("visual_context" :> "img")
rNoId    == ("QuestionText" :> "q") @@ ("visual_context" :> " ")
rNoText  == ("_id" :> "b") @@ ("QuestionText" :> "")
rAlt     == ("_id" :> "c") @@ ("question" :> "alt")
rCaps    == ("question" :> "") @@ ("Question" :> "Which organelle?")

Universe == {rMitosis, rDup, rVisual, rNoId, rNoText, rAlt, rCaps}

SeqsUpTo(S, n) == UNION {[1..k -> S] : k \in 0..n}

\* every input list of at most MaxRecords records
Inputs == SeqsUpTo(Universe, MaxRecords)

\* the input lists of the multi-call behaviours
InputLists ==
    {<<>>, <<rMitosis>>, <<rMitosis, rDup>>, <<rMitosis, rVisual>>, <<rVisual>>,
     <<rNoId>>, <<rNoText>>, <<rAlt, rNoId>>, <<rCaps>>}

\* the input lists whose earlier ingestion built the collection a behaviour starts from
SeedLists == {<<>>, <<rMitosis>>, <<rVisual, rAlt>>}

(***************************************************************************)
(* VectorStoreService._get_existing_ids                                    *)
(***************************************************************************)
\* the _id values of the points of one scroll page
PageIds(page) ==
    {Str(Get(Get(pt.payload, "metadata", <<>>), "_id", None)) :
        pt \in {q \in page : Truthy(Get(Get(q.payload, "metadata", <<>>), "_id", None))}}

GetExistingIds(st) == PageIds({st[i] : i \in DOMAIN st})

(***************************************************************************)
(* VectorStoreService.load_json_and_store                                  *)
(***************************************************************************)
\* a filter loop that drops duplicates only
KeepsUnlessDuplicate(obj, existing_ids) ==
    LET obj_id == Get(obj, "_id", None)
    IN  ~(Truthy(obj_id) /\ Str(obj_id) \in existing_ids)

\* lines 123-132: is the object kept by the filter loop
Keeps(obj, existing_ids) ==
    LET obj_id == Get(obj, "_id", None)
    IN  /\ ~(Truthy(obj_id) /\ Str(obj_id) \in existing_ids)
        /\ Truthy(PrepareTextForEmbedding(obj))

ValidObjects(data, existing_ids) == SelectSeq(data, LAMBDA obj : Keeps(obj, existing_ids))

\* metadata = {k: v for k, v in obj.items() if k != "QuestionText"}
Metadata(obj) == [k \in DOMAIN obj \ {"QuestionText"} |-> obj[k]]

\* a primary payload that carries the record's visual_context as well
PrimaryPayloadWithContext(obj, index) ==
    ("QuestionText" :> Get(obj, "QuestionText", "")) @@
    ("visual_context" :> Get(obj, "visual_context", "")) @@
    ("metadata" :> Metadata(obj)) @@
    ("index" :> index) @@
    ("embedding_type" :> "question_text_only")

\* lines 187-192
PrimaryPayload(obj, index) ==
    ("QuestionText" :> Get(obj, "QuestionText", "")) @@
    ("metadata" :> Metadata(obj)) @@
    ("index" :> index) @@
    ("embedding_type" :> "question_text_only")

\* lines 209-215
VisualPayload(obj, index) ==
    ("QuestionText" :> Get(obj, "QuestionText", "")) @@
    ("visual_context" :> Get(obj, "visual_context", "")) @@
    ("metadata" :> Metadata(obj)) @@
    ("index" :> index) @@
    ("embedding_type" :> "question_text_with_visual_context")

\* positions (1-based, within the batch) of the objects with visual context
VisualPositions(batch_objects) ==
    SelectSeq([i \in 1..Len(batch_objects) |-> i],
              LAMBDA i : Truthy(PrepareTextWithVisualContext(batch_objects[i])))

\* a provenance index that forgets the batches before this one
PrimaryIndexLocal(batch_start, idx) == idx

\* provenance index of the idx-th primary point of a batch (line 190)
PrimaryIndex(batch_start, idx) == batch_start + idx

\* lines 147-155: texts
PrimaryTexts(batch_objects) ==
    [i \in 1..Len(batch_objects) |-> PrepareTextForEmbedding(batch_objects[i])]

\* lines 148-162: texts_with_visual
VisualTexts(batch_objects) ==
    LET vpos == VisualPositions(batch_objects)
    IN  [j \in 1..Len(vpos) |-> PrepareTextWithVisualContext(batch_objects[vpos[j]])]

\* lines 146-217: the points of one batch, in construction order
BatchPoints(batch_objects, batch_start, point_id_counter) ==
    LET n == Len(batch_objects)
        texts == PrimaryTexts(batch_objects)
        vpos == VisualPositions(batch_objects)
        texts_with_visual == VisualTexts(batch_objects)
        visual_indices == [j \in 1..Len(vpos) |-> batch_start + (vpos[j] - 1)]
        embeddings == CreateEmbeddings(texts)
        embeddings_with_visual ==
            IF Len(texts_with_visual) > 0 THEN CreateEmbeddings(texts_with_visual) ELSE <<>>
        primary == [i \in 1..n |->
            [id |-> point_id_counter + (i - 1),
             vector |-> embeddings[i],
             payload |-> PrimaryPayload(batch_objects[i], PrimaryIndex(batch_start, i - 1))]]
        visual == [j \in 1..Len(embeddings_with_visual) |->
            [id |-> point_id_counter + n + (j - 1),
             vector |-> embeddings_with_visual[j],
             payload |-> VisualPayload(batch_objects[vpos[j]], visual_indices[j])]]
    IN  primary \o visual

\* client.upsert: a point with an identifier already present is overwritten
Upsert(st, points) ==
    LET ids == {points[i].id : i \in 1..Len(points)}
        last(id) == CHOOSE i \in 1..Len(points) :
                        /\ points[i].id = id
                        /\ \A j \in 1..Len(points) : points[j].id = id => j <= i
    IN  [id \in DOMAIN st \cup ids |->
            IF id \in ids
            THEN [vector |-> points[last(id)].vector, payload |-> points[last(id)].payload]
            ELSE st[id]]

\* a counter that is not carried from one batch to the next
AdvanceForgotten(point_id_counter, n) == point_id_counter

\* point_id_counter after the n points of a batch (lines 178, 199)
Advance(point_id_counter, n) == point_id_counter + n

\* lines 143-144: the objects of the batch beginning at batch_start
BatchObjects(valid_objects, batch_size, batch_start) ==
    SubSeq(valid_objects, batch_start + 1,
           Min(batch_start + batch_size, Len(valid_objects)))

\* lines 139-228 run to the end: the collection the batch loop leaves and the
\* count it returns
RECURSIVE RunBatches(_, _, _, _, _, _)
RunBatches(st, valid_objects, batch_size, batch_start, point_id_counter, total_stored) ==
    IF batch_start >= Len(valid_objects)
    THEN [store |-> st, total |-> total_stored]
    ELSE LET batch_objects == BatchObjects(valid_objects, batch_size, batch_start)
             points == BatchPoints(batch_objects, batch_start, point_id_counter)
         IN  RunBatches(IF Len(points) > 0 THEN Upsert(st, points) ELSE st,
                        valid_objects, batch_size, batch_start + batch_size,
                        Advance(point_id_counter, Len(points)),
                        total_stored + Len(batch_objects))

\* a whole call of load_json_and_store that nothing overlaps
RunCall(st, data, batch_size) ==
    RunBatches(st, ValidObjects(data, GetExistingIds(st)), batch_size, 0, 0, 0)

StoreAfter(st, data, batch_size) == RunCall(st, data, batch_size).store

Idle(w) == pc[w] = "idle"

\* how a call to a collaborator can end: TRUE when it succeeds
Outcomes == IF faults THEN BOOLEAN ELSE {TRUE}

\* the sample embedding requested even when get_collection has found the collection
EnsureCollectionExistsProbing(get_ok, probe_ok, create_ok) ==
    [calls |-> <<[op |-> "get_collection", found |-> exists /\ get_ok],
                 [op |-> "embed_query", texts |-> <<"sample">>, ok |-> probe_ok]>>,
     ok |-> (exists /\ get_ok) \/ (~exists /\ probe_ok /\ create_ok),
     exists |-> exists \/ (probe_ok /\ create_ok)]

\* _ensure_collection_exists (lines 24-48): get_collection; when it raises, the
\* sample embedding and create_collection, which Qdrant refuses for a collection
\* that exists.  calls: the collaborator calls made; ok: FALSE when RuntimeError
\* is raised; exists: the collection exists afterwards
EnsureCollectionExists(get_ok, probe_ok, create_ok) ==
    IF exists /\ get_ok
    THEN [calls |-> <<[op |-> "get_collection", found |-> TRUE]>>,
          ok |-> TRUE, exists |-> TRUE]
    ELSE [calls |-> <<[op |-> "get_collection", found |-> FALSE],
                      [op |-> "embed_query", texts |-> <<"sample">>, ok |-> probe_ok]>>
                    \o (IF probe_ok
                        THEN <<[op |-> "create_collection", ok |-> ~exists /\ create_ok]>>
                        ELSE <<>>),
          ok |-> ~exists /\ probe_ok /\ create_ok,
          exists |-> exists \/ (probe_ok /\ create_ok)]

\* every exception answered as an internal error
HttpStatusUnclassified(raised) == IF raised = "" THEN 201 ELSE 500

\* routes.py lines 27-48: the status code load_json answers with
HttpStatus(raised) ==
    CASE raised = "" -> 201
      [] raised = "FileNotFoundError" -> 404
      [] raised = "ValueError" -> 400
      [] OTHER -> 500

\* lines 108-118: what opening and parsing the file gives
OpenFile(file) ==
    CASE file.kind = "missing" -> [raised |-> "FileNotFoundError", data |-> <<>>]
      [] file.kind = "invalid" -> [raised |-> "ValueError", data |-> <<>>]
      [] OTHER -> [raised |-> "", data |-> file.data]

\* the call begins: _ensure_collection_exists, _get_existing_ids, json.load and
\* the filter loop (lines 101-136).  The collections of the model hold fewer
\* points than one scroll page, so the scan is a single read of the collection;
\* the upserts of the batches that follow are separate steps, between which
\* another worker's call may read or write the collection.
Begin(w, file, batch_size, supplied, route) ==
    /\ pc[w] = "idle"
    /\ \E get_ok, probe_ok, create_ok, scan_ok \in Outcomes :
        LET ensured == EnsureCollectionExists(get_ok, probe_ok, create_ok)
            existing_ids == IF ensured.ok /\ scan_ok THEN GetExistingIds(store) ELSE {}
            opened == IF ensured.ok THEN OpenFile(file)
                      ELSE [raised |-> "RuntimeError", data |-> <<>>]
            valid_objects == ValidObjects(opened.data, existing_ids)
            alone == \A v \in Workers \ {w} : Idle(v)
            ended == opened.raised # "" \/ Len(valid_objects) = 0
        IN  /\ exists' = ensured.exists
            /\ log' = [log EXCEPT ![w] =
                        ensured.calls \o (IF ensured.ok
                                          THEN <<[op |-> "scroll", ok |-> scan_ok]>>
                                          ELSE <<>>)]
            /\ err' = [err EXCEPT ![w] = opened.raised]
            /\ recs' = [recs EXCEPT ![w] = opened.data]
            /\ bsize' = [bsize EXCEPT ![w] = batch_size]
            /\ existing' = [existing EXCEPT ![w] = existing_ids]
            /\ valid' = [valid EXCEPT ![w] = valid_objects]
            /\ store0' = [store0 EXCEPT ![w] = store]
            /\ solo' = [v \in Workers |-> IF v = w THEN alone ELSE FALSE]
            /\ pc' = [pc EXCEPT ![w] = IF opened.raised # "" THEN "raised"
                                       ELSE IF Len(valid_objects) = 0 THEN "done"
                                       ELSE "batch"]
            /\ http' = [http EXCEPT ![w] = IF route /\ ended
                                           THEN HttpStatus(opened.raised) ELSE 0]
    /\ via' = [via EXCEPT ![w] = IF route THEN "route" ELSE "service"]
    /\ asked' = [asked EXCEPT ![w] = supplied]
    /\ path' = [path EXCEPT ![w] = file.kind]
    /\ bstart' = [bstart EXCEPT ![w] = 0]
    /\ counter' = [counter EXCEPT ![w] = 0]
    /\ total' = [total EXCEPT ![w] = 0]
    /\ ret' = [ret EXCEPT ![w] = 0]
    /\ written' = [written EXCEPT ![w] = <<>>]
    /\ calls' = calls + 1
    /\ UNCHANGED <<store, lastDone, faults>>
    /\ UNCHANGED <<searchVars, scan>>

\* a direct call of load_json_and_store on a file that holds one of the lists
LoadJsonAndStore(w, files) ==
    \E data \in files, batch_size \in BatchSizes :
        Begin(w, [kind |-> "ok", data |-> data], batch_size, batch_size, FALSE)

\* one iteration of the batch loop (lines 142-226)
Batch(w) ==
    /\ pc[w] = "batch"
    /\ \E embed_ok, visual_ok, upsert_ok \in Outcomes :
        LET total_objects == Len(valid[w])
            batch_start == bstart[w]
            batch_objects == BatchObjects(valid[w], bsize[w], batch_start)
            texts == PrimaryTexts(batch_objects)
            texts_with_visual == VisualTexts(batch_objects)
            points == BatchPoints(batch_objects, batch_start, counter[w])
            next_start == batch_start + bsize[w]
            embedded == embed_ok /\ (Len(texts_with_visual) > 0 => visual_ok)
            stored == embedded /\ (Len(points) > 0 => upsert_ok)
            made ==
                <<[op |-> "embed_documents", kind |-> "primary",
                   batch |-> batch_start, texts |-> texts, ok |-> embed_ok]>>
                \o (IF embed_ok /\ Len(texts_with_visual) > 0
                    THEN <<[op |-> "embed_documents", kind |-> "visual",
                            batch |-> batch_start, texts |-> texts_with_visual,
                            ok |-> visual_ok]>>
                    ELSE <<>>)
                \o (IF embedded /\ Len(points) > 0
                    THEN <<[op |-> "upsert", batch |-> batch_start, n |-> Len(points),
                            ok |-> upsert_ok]>>
                    ELSE <<>>)
            last == ~(next_start < total_objects)
        IN  /\ log' = [log EXCEPT ![w] = @ \o made]
            /\ IF stored
               THEN /\ store' = IF Len(points) > 0 THEN Upsert(store, points) ELSE store
                    /\ written' = [written EXCEPT ![w] = @ \o points]
                    /\ counter' = [counter EXCEPT ![w] = Advance(@, Len(points))]
                    /\ total' = [total EXCEPT ![w] = @ + Len(batch_objects)]
                    /\ bstart' = [bstart EXCEPT ![w] = next_start]
                    /\ pc' = [pc EXCEPT ![w] = IF last THEN "done" ELSE "batch"]
                    /\ ret' = [ret EXCEPT ![w] =
                                IF last THEN total[w] + Len(batch_objects) ELSE @]
                    /\ err' = err
                    /\ http' = [http EXCEPT ![w] =
                                IF last /\ via[w] = "route" THEN HttpStatus("") ELSE @]
               ELSE /\ pc' = [pc EXCEPT ![w] = "raised"]
                    /\ err' = [err EXCEPT ![w] = "Exception"]
                    /\ http' = [http EXCEPT ![w] =
                                IF via[w] = "route" THEN HttpStatus("Exception") ELSE @]
                    /\ UNCHANGED <<store, written, counter, total, bstart, ret>>
    /\ UNCHANGED <<recs, bsize, existing, valid, store0, solo, lastDone, calls,
                   exists, faults, via, asked, path>>
    /\ UNCHANGED <<searchVars, scan>>

\* the call returns to its caller
Return(w) ==
    /\ pc[w] \in {"done", "raised"}
    /\ pc' = [pc EXCEPT ![w] = "idle"]
    /\ lastDone' = IF solo[w] /\ pc[w] = "done"
                   THEN [recs |-> recs[w], store |-> store, valid |-> TRUE]
                   ELSE NoCall
    /\ recs' = [recs EXCEPT ![w] = <<>>]
    /\ bsize' = [bsize EXCEPT ![w] = DefaultBatchSize]
    /\ existing' = [existing EXCEPT ![w] = {}]
    /\ valid' = [valid EXCEPT ![w] = <<>>]
    /\ bstart' = [bstart EXCEPT ![w] = 0]
    /\ counter' = [counter EXCEPT ![w] = 0]
    /\ total' = [total EXCEPT ![w] = 0]
    /\ ret' = [ret EXCEPT ![w] = 0]
    /\ written' = [written EXCEPT ![w] = <<>>]
    /\ store0' = [store0 EXCEPT ![w] = <<>>]
    /\ solo' = [solo EXCEPT ![w] = FALSE]
    /\ log' = [log EXCEPT ![w] = <<>>]
    /\ err' = [err EXCEPT ![w] = ""]
    /\ via' = [via EXCEPT ![w] = "service"]
    /\ asked' = [asked EXCEPT ![w] = DefaultBatchSize]
    /\ http' = [http EXCEPT ![w] = 0]
    /\ path' = [path EXCEPT ![w] = ""]
    /\ UNCHANGED <<store, calls, exists, faults>>
    /\ UNCHANGED <<searchVars, scan>>

IngestInit ==
    /\ store \in {StoreAfter(<<>>, seed, DefaultBatchSize) : seed \in SeedLists}
    /\ pc = [w \in Workers |-> "idle"]
    /\ recs = [w \in Workers |-> <<>>]
    /\ bsize = [w \in Workers |-> DefaultBatchSize]
    /\ existing = [w \in Workers |-> {}]
    /\ valid = [w \in Workers |-> <<>>]
    /\ bstart = [w \in Workers |-> 0]
    /\ counter = [w \in Workers |-> 0]
    /\ total = [w \in Workers |-> 0]
    /\ ret = [w \in Workers |-> 0]
    /\ written = [w \in Workers |-> <<>>]
    /\ store0 = [w \in Workers |-> <<>>]
    /\ solo = [w \in Workers |-> FALSE]
    /\ lastDone = NoCall
    /\ calls = 0
    /\ exists = TRUE
    /\ faults = FALSE
    /\ log = [w \in Workers |-> <<>>]
    /\ err = [w \in Workers |-> ""]
    /\ via = [w \in Workers |-> "service"]
    /\ asked = [w \in Workers |-> DefaultBatchSize]
    /\ http = [w \in Workers |-> 0]
    /\ path = [w \in Workers |-> ""]

SearchIdle ==
    /\ cands = <<>>
    /\ req = <<>>
    /\ sent = <<>>
    /\ response = <<>>
    /\ results = <<>>
    /\ spc = "ready"

\* no scan of the collection is under way
ScanIdle ==
    [pc |-> "ready", existing_ids |-> {}, offset |-> <<>>, failed |-> FALSE, pages |-> <<>>]

Init == IngestInit /\ SearchIdle /\ scan = ScanIdle

\* any worker begins a call while fewer than MaxCalls have begun
Call(w) == calls < MaxCalls /\ LoadJsonAndStore(w, InputLists)

Next == \E w \in Workers : Call(w) \/ Batch(w) \/ Return(w)

Spec == Init /\ [][Next]_vars

\* one call by one worker, on any input list of at most MaxRecords records
CallOnce == calls = 0 /\ LoadJsonAndStore("w1", Inputs)

CallNext == CallOnce \/ Batch("w1") \/ Return("w1")

CallSpec == Init /\ [][CallNext]_vars

(***************************************************************************)
(* VectorStoreService._get_existing_ids, page by page                      *)
(***************************************************************************)
\* a scroll whose next offset lies one point beyond the end of the page
ScrollSkipping(st, offset, limit) ==
    LET from == {i \in DOMAIN st : offset = <<>> \/ i >= offset[1]}
        page == {i \in from : Cardinality({j \in from : j < i}) < limit}
        rest == from \ page
    IN  [result |-> {st[i] : i \in page},
         ids |-> page,
         next_offset |-> IF rest = {} THEN <<>>
                         ELSE <<(CHOOSE m \in rest : \A j \in rest : m <= j) + 1>>]

\* client.scroll: the points from offset on in identifier order, at most limit
\* of them, their identifiers, and the identifier the next page starts at
\* (<<>> for None)
Scroll(st, offset, limit) ==
    LET from == {i \in DOMAIN st : offset = <<>> \/ i >= offset[1]}
        page == {i \in from : Cardinality({j \in from : j < i}) < limit}
        rest == from \ page
    IN  [result |-> {st[i] : i \in page},
         ids |-> page,
         next_offset |-> IF rest = {} THEN <<>>
                         ELSE <<CHOOSE m \in rest : \A j \in rest : m <= j>>]

\* the records whose ingestion filled the collections that are scanned
ScanRecord(i, shape) ==
    CASE shape = "keyed" -> ("_id" :> ToString(i)) @@ ("QuestionText" :> "q")
      [] shape = "plain" -> ("QuestionText" :> "q")
      [] shape = "mixed" -> IF i % 3 = 0
                            THEN ("_id" :> ToString(i)) @@ ("QuestionText" :> "q")
                            ELSE ("QuestionText" :> "q")
      [] shape = "blank" -> IF i % 2 = 0
                            THEN ("_id" :> "") @@ ("QuestionText" :> "q")
                            ELSE ("_id" :> ToString(i)) @@ ("QuestionText" :> "q")
      [] OTHER -> ("_id" :> ToString(i)) @@ ("QuestionText" :> "q")
                      @@ ("visual_context" :> "img")

ScanShapes == {"keyed", "plain", "mixed", "blank", "paired"}

\* collection sizes around the page boundaries
ScanSizes ==
    UNION {{(p - 1) * ScrollLimit, (p - 1) * ScrollLimit + 1} : p \in 1..MaxPages}

ScanStores ==
    {StoreAfter(<<>>, [i \in 1..n |-> ScanRecord(i, shape)], DefaultBatchSize) :
        n \in ScanSizes, shape \in ScanShapes}

\* lines 57-60
ScanBegin ==
    /\ scan.pc = "ready"
    /\ scan' = [pc |-> "loop", existing_ids |-> {}, offset |-> <<>>, failed |-> FALSE,
                pages |-> <<>>]
    /\ UNCHANGED <<ingestVars, searchVars>>

\* one iteration of the while loop (lines 61-85): a scroll that raises ends the
\* loop in the except clause, with existing_ids as it is
ScanPage ==
    /\ scan.pc = "loop"
    /\ \E scroll_ok \in BOOLEAN :
        IF ~(exists /\ scroll_ok)
        THEN scan' = [scan EXCEPT !.pc = "returned", !.failed = TRUE]
        ELSE LET got == Scroll(store, scan.offset, ScrollLimit)
             IN  IF got.result = {}
                 THEN scan' = [scan EXCEPT !.pc = "returned"]
                 ELSE scan' = [pc |-> IF got.next_offset = <<>> THEN "returned" ELSE "loop",
                               existing_ids |-> scan.existing_ids \cup PageIds(got.result),
                               offset |-> got.next_offset,
                               failed |-> FALSE,
                               pages |-> Append(scan.pages, got.ids)]
    /\ UNCHANGED <<ingestVars, searchVars>>

\* line 87: the caller has the set
ScanReturn ==
    /\ scan.pc = "returned"
    /\ scan' = ScanIdle
    /\ UNCHANGED <<ingestVars, searchVars>>

ScanInit ==
    /\ exists \in BOOLEAN
    /\ store \in IF exists THEN ScanStores ELSE {<<>>}
    /\ faults = TRUE
    /\ pc = [w \in Workers |-> "idle"]
    /\ recs = [w \in Workers |-> <<>>]
    /\ bsize = [w \in Workers |-> DefaultBatchSize]
    /\ existing = [w \in Workers |-> {}]
    /\ valid = [w \in Workers |-> <<>>]
    /\ bstart = [w \in Workers |-> 0]
    /\ counter = [w \in Workers |-> 0]
    /\ total = [w \in Workers |-> 0]
    /\ ret = [w \in Workers |-> 0]
    /\ written = [w \in Workers |-> <<>>]
    /\ store0 = [w \in Workers |-> <<>>]
    /\ solo = [w \in Workers |-> FALSE]
    /\ lastDone = NoCall
    /\ calls = 0
    /\ log = [w \in Workers |-> <<>>]
    /\ err = [w \in Workers |-> ""]
    /\ via = [w \in Workers |-> "service"]
    /\ asked = [w \in Workers |-> DefaultBatchSize]
    /\ http = [w \in Workers |-> 0]
    /\ path = [w \in Workers |-> ""]
    /\ SearchIdle
    /\ scan = ScanIdle

ScanNext == ScanBegin \/ ScanPage \/ ScanReturn

ScanSpec == ScanInit /\ [][ScanNext]_vars

\* the loop of lines 61-82 keeps running: an iteration that can be made is made
ScanFairSpec == ScanSpec /\ WF_vars(ScanPage)

(***************************************************************************)
(* POST /load-json, with collaborators that may fail                       *)
(***************************************************************************)
\* what the path of a request can name: a file holding a list, no file, or a
\* file that is not JSON
Files ==
    {[kind |-> "ok", data |-> data] : data \in InputLists}
        \cup {[kind |-> "missing", data |-> <<>>], [kind |-> "invalid", data |-> <<>>]}

\* routes.py lines 18-48: load_json calls load_json_and_store with the path
\* alone, so batch_size is its default whatever LoadJSONRequest.batch_size says
LoadJson(w) ==
    \E file \in Files, batch_size \in BatchSizes :
        Begin(w, file, DefaultBatchSize, batch_size, TRUE)

\* the collection is there, left by earlier calls, or it is absent (deleted, or
\* its re-creation in clear_collection failed); collaborators may fail
RouteInit ==
    /\ exists \in BOOLEAN
    /\ store \in IF exists
                 THEN {StoreAfter(<<>>, seed, DefaultBatchSize) : seed \in SeedLists}
                 ELSE {<<>>}
    /\ faults = TRUE
    /\ pc = [w \in Workers |-> "idle"]
    /\ recs = [w \in Workers |-> <<>>]
    /\ bsize = [w \in Workers |-> DefaultBatchSize]
    /\ existing = [w \in Workers |-> {}]
    /\ valid = [w \in Workers |-> <<>>]
    /\ bstart = [w \in Workers |-> 0]
    /\ counter = [w \in Workers |-> 0]
    /\ total = [w \in Workers |-> 0]
    /\ ret = [w \in Workers |-> 0]
    /\ written = [w \in Workers |-> <<>>]
    /\ store0 = [w \in Workers |-> <<>>]
    /\ solo = [w \in Workers |-> FALSE]
    /\ lastDone = NoCall
    /\ calls = 0
    /\ log = [w \in Workers |-> <<>>]
    /\ err = [w \in Workers |-> ""]
    /\ via = [w \in Workers |-> "service"]
    /\ asked = [w \in Workers |-> DefaultBatchSize]
    /\ http = [w \in Workers |-> 0]
    /\ path = [w \in Workers |-> ""]
    /\ SearchIdle
    /\ scan = ScanIdle

RouteCall == calls = 0 /\ LoadJson("w1")

RouteNext == RouteCall \/ Batch("w1") \/ Return("w1")

RouteSpec == RouteInit /\ [][RouteNext]_vars

(***************************************************************************)
(* VectorStoreService.search_similar                                       *)
(***************************************************************************)
Take(seq, n) == SubSeq(seq, 1, Min(n, Len(seq)))

\* client.query_points: at most limit points, each scoring at least score_threshold
QueryPoints(points, limit, score_threshold) ==
    Take(SelectSeq(points, LAMBDA pt : pt.score >= score_threshold), limit)

\* line 253
SearchLimit(limit) == limit * OverFetch

\* a query that does not pass the threshold on
QueryThresholdDropped(threshold) == 0

\* line 260: score_threshold=threshold
QueryThreshold(threshold) == threshold

\* lines 267-276: the key a returned point is filed under
QuestionId(point) ==
    LET metadata == Get(point.payload, "metadata", <<>>)
        question_id == Get(metadata, "_id", None)
    IN  IF ~Truthy(question_id) THEN ToString(point.id) ELSE Str(question_id)

\* lines 283-286
QuestionObj(point) ==
    LET metadata == Get(point.payload, "metadata", <<>>)
    IN  [k \in {"QuestionText"} \cup DOMAIN metadata |->
            IF k \in DOMAIN metadata THEN metadata[k]
            ELSE Get(point.payload, "QuestionText", "")]

ResultOf(point) ==
    [id |-> QuestionId(point),
     question |-> QuestionObj(point),
     score |-> point.score,
     point_id |-> ToString(point.id)]

\* a comparison that keeps the lower score
BetterReversed(score, kept) == score < kept

\* line 298
Better(score, kept) == score > kept

\* results_by_id[key] = entry for a key already present: the key keeps its place
Replace(d, key, entry) == [i \in 1..Len(d) |-> IF d[i].id = key THEN entry ELSE d[i]]

\* a loop that files every point without looking for its key
KeepEvery(d, point) == Append(d, ResultOf(point))

\* lines 289-304: one iteration of the loop over search_response.points; the
\* dict results_by_id is the sequence of its values in insertion order
Keep(d, point) ==
    LET question_id == QuestionId(point)
        at == {i \in 1..Len(d) : d[i].id = question_id}
    IN  IF at = {}
        THEN Append(d, ResultOf(point))
        ELSE IF Better(point.score, d[CHOOSE i \in at : TRUE].score)
             THEN Replace(d, question_id, ResultOf(point))
             ELSE d

RECURSIVE ResultsById(_)
ResultsById(points) ==
    IF Len(points) = 0 THEN <<>>
    ELSE Keep(ResultsById(SubSeq(points, 1, Len(points) - 1)), points[Len(points)])

\* a sort that puts x before the elements it ties with
InsertDescBeforeTies(xs, x) ==
    LET k == Cardinality({i \in 1..Len(xs) : xs[i].score > x.score})
    IN  SubSeq(xs, 1, k) \o <<x>> \o SubSeq(xs, k + 1, Len(xs))

\* where list.sort(key=score, reverse=True) puts x among the sorted xs: after
\* every element scoring at least as much (the sort is stable)
InsertDesc(xs, x) ==
    LET k == Cardinality({i \in 1..Len(xs) : xs[i].score >= x.score})
    IN  SubSeq(xs, 1, k) \o <<x>> \o SubSeq(xs, k + 1, Len(xs))

RECURSIVE SortDesc(_)
SortDesc(xs) ==
    IF Len(xs) = 0 THEN <<>>
    ELSE InsertDesc(SortDesc(SubSeq(xs, 1, Len(xs) - 1)), xs[Len(xs)])

\* a result list that is never cut to the limit
RankedUncut(d, limit) == SortDesc(d)

\* lines 306-311
Ranked(d, limit) == Take(SortDesc(d), limit)

\* the scores a point can have against the query, and the thresholds asked for
Scores == {50, 75, 90}
Thresholds == {0, 75, 90}
Limits == 1..MaxLimit

\* what the metadata of a stored point can say about its _id
Metas == {<<>>, ("_id" :> "a"), ("_id" :> "0")}

\* the collection's points in the order query_points would return them, each
\* with its score against the query; point ids are distinct.  Any order is
\* allowed, the descending order Qdrant uses among them.
CandLists ==
    UNION {[1..n -> [meta : Metas, score : Scores]] : n \in 0..MaxHits}

PointOf(c, i) ==
    [id |-> i - 1,
     score |-> c.score,
     payload |-> ("QuestionText" :> "q") @@ ("metadata" :> c.meta)]

\* search_similar as a whole (lines 248-311)
SearchSimilar(threshold, limit) ==
    LET found == QueryPoints([i \in 1..Len(cands) |-> PointOf(cands[i], i)],
                             SearchLimit(limit), QueryThreshold(threshold))
    IN  /\ sent' = [score_threshold |-> QueryThreshold(threshold),
                    limit |-> SearchLimit(limit)]
        /\ response' = found
        /\ results' = Ranked(ResultsById(found), limit)

\* a direct call of search_similar
SearchSimilarCall ==
    /\ spc = "ready"
    /\ \E threshold \in Thresholds, limit \in Limits :
        /\ req' = [via |-> "service", body |-> <<>>, threshold |-> threshold, limit |-> limit]
        /\ SearchSimilar(threshold, limit)
    /\ spc' = "responded"
    /\ UNCHANGED cands
    /\ UNCHANGED <<ingestVars, scan>>

(***************************************************************************)
(* QueryRequest and the /query route                                       *)
(***************************************************************************)
\* an Optional field of the request body: <<>> is null, <<v>> is the value v;
\* a field the caller leaves out is not in the body
Bodies ==
    {b \in UNION {[D -> {<<>>} \cup {<<t>> : t \in Thresholds} \cup {<<l>> : l \in Limits}] :
                    D \in SUBSET {"threshold", "limit"}} :
        /\ "threshold" \in DOMAIN b => b["threshold"] \in {<<>>} \cup {<<t>> : t \in Thresholds}
        /\ "limit" \in DOMAIN b => b["limit"] \in {<<>>} \cup {<<l>> : l \in Limits}}

\* schemas.py: the model pydantic builds from the body
QueryRequest(body) ==
    [threshold |-> Get(body, "threshold", <<SchemaThreshold>>),
     limit |-> Get(body, "limit", <<SchemaLimit>>)]

\* Python's `x or d` for an Optional number
Or(x, d) == IF x = <<>> \/ x = <<0>> THEN d ELSE x[1]

\* routes.py line 62
RouteThreshold(request) == Or(request.threshold, SimilarityThreshold)

\* the /query handler
QueryQuestions ==
    /\ spc = "ready"
    /\ \E body \in Bodies :
        LET request == QueryRequest(body)
            threshold == RouteThreshold(request)
            limit == Or(request.limit, RouteLimit)
        IN  /\ req' = [via |-> "route", body |-> body, threshold |-> threshold, limit |-> limit]
            /\ SearchSimilar(threshold, limit)
    /\ spc' = "responded"
    /\ UNCHANGED cands
    /\ UNCHANGED <<ingestVars, scan>>

IngestIdle ==
    /\ store = <<>>
    /\ pc = [w \in Workers |-> "idle"]
    /\ recs = [w \in Workers |-> <<>>]
    /\ bsize = [w \in Workers |-> DefaultBatchSize]
    /\ existing = [w \in Workers |-> {}]
    /\ valid = [w \in Workers |-> <<>>]
    /\ bstart = [w \in Workers |-> 0]
    /\ counter = [w \in Workers |-> 0]
    /\ total = [w \in Workers |-> 0]
    /\ ret = [w \in Workers |-> 0]
    /\ written = [w \in Workers |-> <<>>]
    /\ store0 = [w \in Workers |-> <<>>]
    /\ solo = [w \in Workers |-> FALSE]
    /\ lastDone = NoCall
    /\ calls = 0
    /\ exists = TRUE
    /\ faults = FALSE
    /\ log = [w \in Workers |-> <<>>]
    /\ err = [w \in Workers |-> ""]
    /\ via = [w \in Workers |-> "service"]
    /\ asked = [w \in Workers |-> DefaultBatchSize]
    /\ http = [w \in Workers |-> 0]
    /\ path = [w \in Workers |-> ""]

SearchInit ==
    /\ IngestIdle
    /\ cands \in CandLists
    /\ req = <<>>
    /\ sent = <<>>
    /\ response = <<>>
    /\ results = <<>>
    /\ spc = "ready"
    /\ scan = ScanIdle

SearchNext == SearchSimilarCall \/ QueryQuestions

SearchSpec == SearchInit /\ [][SearchNext]_vars

(***************************************************************************)
(* Properties of the ingestion pipeline                                    *)
(***************************************************************************)
\* the external identifier a stored point records, None when it records none
ExtIdOf(point) == Get(Get(point.payload, "metadata", <<>>), "_id", None)

KindOf(point) == Get(point.payload, "embedding_type", None)

\* the stored records of a collection, apart from their point identifiers
RecordsOf(st) == {st[i] : i \in DOMAIN st}

HasIdAndText(obj) ==
    /\ "_id" \in DOMAIN obj /\ obj["_id"] # ""
    /\ \E k \in {"QuestionText", "question", "Question"} : k \in DOMAIN obj /\ obj[k] # ""

\* w has finished a call that began right after a call on the same input returned,
\* nothing else touching the collection during or between the two
SecondOfTwo(w) ==
    /\ pc[w] = "done"
    /\ solo[w]
    /\ lastDone.valid
    /\ lastDone.recs = recs[w]
    /\ lastDone.store = store0[w]

\* C1: when every record of the input carries an _id and usable primary text, the
\* second of two consecutive ingest calls on that input returns 0 and leaves the
\* collection as the first call left it.
C1_IdempotentReingestion ==
    \A w \in Workers :
        (SecondOfTwo(w) /\ \A i \in 1..Len(recs[w]) : HasIdAndText(recs[w][i]))
            => (ret[w] = 0 /\ store = store0[w])

\* C2: of the records of one input that share an _id not yet in the collection,
\* only the first is stored and counted; ingesting the two records with _id "a"
\* into an empty collection returns 1.
C2_FirstOfDuplicatesOnly ==
    \A w \in Workers :
        pc[w] = "done" =>
            /\ \A i, j \in 1..Len(written[w]) :
                (/\ i < j
                 /\ KindOf(written[w][i]) = KindOf(written[w][j])
                 /\ ExtIdOf(written[w][i]) # None
                 /\ ExtIdOf(written[w][i]) \notin GetExistingIds(store0[w]))
                    => ExtIdOf(written[w][i]) # ExtIdOf(written[w][j])
            /\ (recs[w] = <<rMitosis, rDup>> /\ store0[w] = <<>> /\ solo[w]) => ret[w] = 1

\* C3: no two stored points have the same external identifier and the same
\* embedding kind, in any state of the collection.
C3_NoDuplicateEntries ==
    \A i, j \in DOMAIN store :
        (i # j /\ ExtIdOf(store[i]) # None /\ ExtIdOf(store[i]) = ExtIdOf(store[j]))
            => KindOf(store[i]) # KindOf(store[j])

\* C10: a call returns the same count and leaves the same stored records
\* (vectors, payloads, embedding kinds) as the same call with any other batch
\* size on the same collection would.
C10_BatchSizeInvariance ==
    pc["w1"] = "done" =>
        \A b \in BatchSizes :
            LET other == RunCall(store0["w1"], recs["w1"], b)
            IN  /\ ret["w1"] = other.total
                /\ RecordsOf(store) = RecordsOf(other.store)
                /\ DOMAIN store = DOMAIN other.store

\* a finished call of two batches whose points got other identifiers than one
\* batch would have given them
C10_Witness ==
    /\ pc["w1"] = "done"
    /\ bsize["w1"] = 1
    /\ Len(valid["w1"]) > 1
    /\ ret["w1"] = Len(valid["w1"])
    /\ store # RunCall(store0["w1"], recs["w1"], DefaultBatchSize).store

\* the record carries supplementary-context text that is not blank
HasContext(obj) ==
    "visual_context" \in DOMAIN obj /\ obj["visual_context"] \notin {"", " "}

\* the points the call of w has written for the k-th surviving record (from 0)
WrittenFor(w, k, kind) ==
    {i \in 1..Len(written[w]) :
        written[w][i].payload["index"] = k /\ KindOf(written[w][i]) = kind}

ContextCount(objs) == Cardinality({i \in 1..Len(objs) : HasContext(objs[i])})

\* C11: a finished call has written, for every surviving record, one primary-only
\* point, and one primary+context point more exactly when the record's
\* visual_context is not blank; each upsert carries the points of its batch's
\* records; the count returned is the number of surviving records.
C11_DualEmbeddingCount ==
    pc["w1"] = "done" =>
        /\ ret["w1"] = Len(valid["w1"])
        /\ Len(written["w1"]) = Len(valid["w1"]) + ContextCount(valid["w1"])
        /\ \A k \in 1..Len(valid["w1"]) :
            /\ Cardinality(WrittenFor("w1", k - 1, "question_text_only")) = 1
            /\ Cardinality(WrittenFor("w1", k - 1, "question_text_with_visual_context"))
                    = IF HasContext(valid["w1"][k]) THEN 1 ELSE 0
        /\ \A e \in 1..Len(log["w1"]) :
            log["w1"][e].op = "upsert" =>
                LET objs == BatchObjects(valid["w1"], bsize["w1"], log["w1"][e].batch)
                IN  log["w1"][e].n = Len(objs) + ContextCount(objs)

\* a finished call that kept a record with context and a record whose
\* visual_context is blank
C11_Witness ==
    /\ pc["w1"] = "done"
    /\ Len(written["w1"]) = 3
    /\ ret["w1"] = 2
    /\ \E k \in 1..Len(valid["w1"]) : Get(valid["w1"][k], "visual_context", "") = " "

\* the external identifiers carried by the points of a collection
StoredIds(st) == {ExtIdOf(st[i]) : i \in DOMAIN st} \ {None}

\* every record read by the call of w carries an identifier of the set
AllIn(w, ids) ==
    \A i \in 1..Len(recs[w]) :
        "_id" \in DOMAIN recs[w][i] /\ recs[w][i]["_id"] \in ids

\* the entries of the log of w's call that are calls of the given kinds
LogOf(w, ops) == {e \in 1..Len(log[w]) : log[w][e].op \in ops}

\* C12 as stated: a call that has returned, on an input that is empty or whose
\* records all carry identifiers the collection held when the call began, has
\* returned 0 and has made no call to the embedding provider.
C12_NoProviderContact ==
    (pc["w1"] = "done" /\ path["w1"] = "ok" /\ AllIn("w1", StoredIds(store0["w1"]))) =>
        /\ ret["w1"] = 0
        /\ LogOf("w1", {"embed_query", "embed_documents"}) = {}

\* C12, amended: a call that has returned, on an input that is empty or whose
\* records all carry identifiers of the key set the call built, has returned 0,
\* has requested no embedding of any record and has upserted nothing; the
\* embedding provider is contacted once, for the sample text, exactly when
\* get_collection did not find the collection.
C12_OnlyTheSampleProbe ==
    (pc["w1"] = "done" /\ path["w1"] = "ok" /\ AllIn("w1", existing["w1"])) =>
        /\ ret["w1"] = 0
        /\ LogOf("w1", {"embed_documents", "upsert"}) = {}
        /\ log["w1"][1].op = "get_collection"
        /\ LogOf("w1", {"embed_query"}) = IF log["w1"][1].found THEN {} ELSE {2}

\* an empty input ingested when the collection had to be created
C12_Witness ==
    /\ pc["w1"] = "done"
    /\ path["w1"] = "ok"
    /\ recs["w1"] = <<>>
    /\ ret["w1"] = 0
    /\ LogOf("w1", {"embed_query"}) = {2}

\* QuestionText and the fallback fields question and Question are all empty or absent
Unusable(obj) ==
    \A k \in {"QuestionText", "question", "Question"} : k \notin DOMAIN obj \/ obj[k] = ""

\* the record a stored point stands for: its metadata and its QuestionText
StoredRecord(point) ==
    ("QuestionText" :> Get(point.payload, "QuestionText", "")) @@
    Get(point.payload, "metadata", <<>>)

\* C13: records without usable primary text are left out of the call: the count
\* returned is at most the number of the other records, no embedding is
\* requested for an empty text, no written point stands for such a record; a
\* call on [{QuestionText:'', _id:b}] returns 0, requests and writes nothing.
C13_UnusableExcluded ==
    /\ \A e \in LogOf("w1", {"embed_documents"}) :
            \A j \in 1..Len(log["w1"][e].texts) : log["w1"][e].texts[j] # ""
    /\ \A i \in 1..Len(written["w1"]) : ~Unusable(StoredRecord(written["w1"][i]))
    /\ \A k \in 1..Len(valid["w1"]) : ~Unusable(valid["w1"][k])
    /\ pc["w1"] = "done" =>
        /\ ret["w1"] <= Cardinality({i \in 1..Len(recs["w1"]) : ~Unusable(recs["w1"][i])})
        /\ recs["w1"] = <<rNoText>> =>
            /\ ret["w1"] = 0
            /\ written["w1"] = <<>>
            /\ LogOf("w1", {"embed_documents", "upsert"}) = {}

\* a finished call whose input held a record without usable text next to one with it
C13_Witness ==
    /\ pc["w1"] = "done"
    /\ Len(recs["w1"]) = 2
    /\ Unusable(recs["w1"][1])
    /\ ret["w1"] = 1
    /\ Len(written["w1"]) >= 1

\* C14 as stated: a scan in which a scroll call failed, on the first page or on
\* a later one, or whose collection does not exist, gives its caller the empty set.
C14_FailureGivesEmptySet ==
    (scan.pc = "returned" /\ scan.failed) => scan.existing_ids = {}

\* a scan no scroll of which failed gives the identifiers of the whole collection
ScanComplete ==
    (scan.pc = "returned" /\ ~scan.failed) => scan.existing_ids = GetExistingIds(store)

\* the call of w has ended, by returning or by raising
Ended(w) == pc[w] \in {"done", "raised"}

\* a collaborator call whose failure the call of w does not absorb has failed
CollaboratorFailed(w) ==
    \E e \in LogOf(w, {"embed_query", "create_collection", "embed_documents", "upsert"}) :
        ~log[w][e].ok

InKeySet(obj, ids) == "_id" \in DOMAIN obj /\ obj["_id"] \in ids

\* the records of the input of w's call that have usable text and are not
\* duplicates by the key set the call built
Counted(w) ==
    {i \in 1..Len(recs[w]) :
        ~Unusable(recs[w][i]) /\ ~InKeySet(recs[w][i], existing[w])}

\* C16: in every call, a record with usable text is skipped exactly when it
\* carries an identifier that is in the key set built at the start of the call;
\* so a record with usable text and no identifier is counted by every call
\* that submits it.
C16_SkippedExactlyWhenKeyed ==
    \A w \in Workers :
        pc[w] = "done" =>
            /\ ret[w] = Cardinality(Counted(w))
            /\ \A i \in 1..Len(recs[w]) :
                (~Unusable(recs[w][i]) /\ "_id" \notin DOMAIN recs[w][i])
                    => \E k \in 1..Len(valid[w]) : valid[w][k] = recs[w][i]

\* C17: when a call has returned, every record the collection held when the
\* call began is still in the collection, and no point the call has written
\* took the identifier of a point that was there before.
C17_EarlierDataKept ==
    \A w \in Workers :
        pc[w] = "done" =>
            /\ \A i \in DOMAIN store0[w] :
                \E j \in DOMAIN store : store[j].payload = store0[w][i].payload
            /\ \A k \in 1..Len(written[w]) : written[w][k].id \notin DOMAIN store0[w]

\* C18: the k-th point a call constructs has the identifier k - 1, through all
\* its batches: identifiers start at 0, rise by one per point, are pairwise
\* distinct and increase in construction order; the counter is the number of
\* points constructed so far.
C18_RunScopedIdentifiers ==
    /\ \A k \in 1..Len(written["w1"]) : written["w1"][k].id = k - 1
    /\ \A i, j \in 1..Len(written["w1"]) :
            i < j => written["w1"][i].id < written["w1"][j].id
    /\ pc["w1"] \in {"batch", "done"} => counter["w1"] = Len(written["w1"])

\* a finished call of two batches that constructed three points
C18_Witness ==
    /\ pc["w1"] = "done"
    /\ bsize["w1"] = 1
    /\ Len(valid["w1"]) = 2
    /\ Len(written["w1"]) = 3

\* the entries of the log of w's call that belong to the batch loop
BatchLog(w) == LogOf(w, {"embed_documents", "upsert"})

\* C19: a call embeds and upserts its surviving records in consecutive batches
\* of at most the batch size its caller supplied, in input order; the calls of a
\* batch come after those of the batch before it, whose upsert has returned; a
\* batch makes at most one primary embedding call, at most one with context and
\* at most one upsert, and no upsert of zero points.
C19_BatchingProtocol ==
    /\ \A e \in BatchLog("w1") :
        /\ log["w1"][e].op = "embed_documents" => Len(log["w1"][e].texts) <= asked["w1"]
        /\ log["w1"][e].op = "upsert" => log["w1"][e].n > 0
        /\ log["w1"][e].batch % asked["w1"] = 0
    /\ \A e, f \in BatchLog("w1") :
        /\ e < f => log["w1"][e].batch <= log["w1"][f].batch
        /\ (e < f /\ log["w1"][e].batch < log["w1"][f].batch) =>
                \E u \in BatchLog("w1") :
                    /\ u < f
                    /\ log["w1"][u].op = "upsert"
                    /\ log["w1"][u].ok
                    /\ log["w1"][u].batch = log["w1"][e].batch
        /\ (/\ e # f
            /\ log["w1"][e].batch = log["w1"][f].batch
            /\ log["w1"][e].op = log["w1"][f].op)
                => (/\ log["w1"][e].op = "embed_documents"
                    /\ log["w1"][e].kind # log["w1"][f].kind)
    /\ pc["w1"] = "done" =>
            \A k \in 1..Len(valid["w1"]) :
                \E e \in BatchLog("w1") :
                    /\ log["w1"][e].op = "embed_documents"
                    /\ log["w1"][e].kind = "primary"
                    /\ k - 1 >= log["w1"][e].batch
                    /\ k - 1 < log["w1"][e].batch + asked["w1"]
                    /\ log["w1"][e].texts[k - log["w1"][e].batch]
                            = PrepareTextForEmbedding(valid["w1"][k])

\* the field of a record with usable text that the extraction rule takes the
\* primary text from: the first non-empty of QuestionText, question, Question
TextField(obj) ==
    CASE "QuestionText" \in DOMAIN obj /\ obj["QuestionText"] # "" -> "QuestionText"
      [] "question" \in DOMAIN obj /\ obj["question"] # "" -> "question"
      [] OTHER -> "Question"

\* C20: every point a call has written carries, as its payload's QuestionText,
\* the primary text extracted from its record, the text its primary vector
\* embeds, and carries as metadata all fields of the record but the one the
\* text was taken from.
C20_StoredTextIsEmbeddedText ==
    \A i \in 1..Len(written["w1"]) :
        LET point == written["w1"][i]
            obj == valid["w1"][point.payload["index"] + 1]
        IN  /\ point.payload["QuestionText"] = obj[TextField(obj)]
            /\ KindOf(point) = "question_text_only"
                    => point.vector = CreateEmbeddings(<<point.payload["QuestionText"]>>)[1]
            /\ point.payload["metadata"] = [k \in DOMAIN obj \ {TextField(obj)} |-> obj[k]]

\* the supplementary-context text a point's payload carries, "" when it carries none
ContextOf(point) == Get(point.payload, "visual_context", "")

\* C21: every point of the collection, and every point a call has written, is
\* tagged question_text_with_visual_context when its payload carries
\* supplementary-context text that is not empty (nor blank), and
\* question_text_only when its payload carries none.
C21_KindMatchesContext ==
    \A point \in RecordsOf(store) \cup {written["w1"][i] : i \in 1..Len(written["w1"])} :
        /\ KindOf(point) \in {"question_text_only", "question_text_with_visual_context"}
        /\ KindOf(point) = "question_text_with_visual_context" <=> ContextOf(point) # ""
        /\ ContextOf(point) # " "
        /\ KindOf(point) = "question_text_only" => "visual_context" \notin DOMAIN point.payload

\* a finished call that has stored both points of a record with context, and the
\* single point of a record whose visual_context is blank
C21_Witness ==
    /\ pc["w1"] = "done"
    /\ \E i, j, k \in 1..Len(written["w1"]) :
        /\ KindOf(written["w1"][i]) = "question_text_with_visual_context"
        /\ KindOf(written["w1"][j]) = "question_text_only"
        /\ written["w1"][j].payload["index"] = written["w1"][i].payload["index"]
        /\ Get(written["w1"][k].payload["metadata"], "visual_context", "") = " "
    /\ \A i \in 1..Len(written["w1"]) : written["w1"][i].id \in DOMAIN store

\* the external identifiers the metadata of the points of a collection carry
\* (an empty _id is no identifier), in string form
IdentifiersIn(st) == {ExtIdOf(st[i]) : i \in DOMAIN st} \ {None, ""}

\* what a scan whose scroll calls all succeeded has done when it returns: its
\* pages, in cursor order, hold every point of the collection exactly once, no
\* page is scrolled that a full page before it did not announce, and the set
\* returned is that of the identifiers in the points' metadata
ScanVisitsAll ==
    (scan.pc = "returned" /\ ~scan.failed) =>
        /\ UNION {scan.pages[k] : k \in 1..Len(scan.pages)} = DOMAIN store
        /\ \A k, l \in 1..Len(scan.pages) :
                k < l => \A a \in scan.pages[k] : \A b \in scan.pages[l] : a < b
        /\ \A k \in 1..Len(scan.pages) :
                Cardinality(scan.pages[k]) =
                    IF k < Len(scan.pages) THEN ScrollLimit
                    ELSE Cardinality(DOMAIN store) - (k - 1) * ScrollLimit
        /\ scan.existing_ids = IdentifiersIn(store)

\* C22: a scan whose scroll calls succeed returns, having scrolled every page
\* once in cursor order, with exactly the identifiers found in the metadata of
\* the points of the collection; a scan always returns, and no step of it
\* changes the collection.
C22_ScanTerminatesComplete ==
    /\ []ScanVisitsAll
    /\ [][store' = store /\ exists' = exists]_vars
    /\ (scan.pc = "loop") ~> (scan.pc = "returned")

\* a scan without failure has returned from a collection of more than two pages,
\* some of whose points carry no identifier
C22_Witness ==
    /\ scan.pc = "returned"
    /\ ~scan.failed
    /\ Len(scan.pages) = MaxPages
    /\ Cardinality(scan.existing_ids) > ScrollLimit
    /\ \E i \in DOMAIN store : ExtIdOf(store[i]) \in {None, ""}

(***************************************************************************)
(* Properties of the search aggregator and the /query route                *)
(***************************************************************************)
\* the identifier of a match: its metadata _id, or its point identifier when
\* the metadata has none
MatchId(point) ==
    LET metadata == point.payload["metadata"]
    IN  IF "_id" \in DOMAIN metadata THEN metadata["_id"] ELSE ToString(point.id)

\* the positions of the response whose match has this identifier
Matches(id) == {i \in 1..Len(response) : MatchId(response[i]) = id}

FirstSeen(id) == CHOOSE i \in Matches(id) : \A j \in Matches(id) : i <= j

\* every result is built from a returned point and carries that point's identifier
FromResponse(r) ==
    \E i \in 1..Len(response) :
        /\ ToString(response[i].id) = r.point_id
        /\ MatchId(response[i]) = r.id
        /\ response[i].score = r.score

\* C4: no two results of one search have the same id, the id of a result being
\* the _id of the match it was built from or, without one, its point identifier.
C4_UniqueIds ==
    spc = "responded" =>
        /\ \A i \in 1..Len(results) : FromResponse(results[i])
        /\ \A i, j \in 1..Len(results) : i # j => results[i].id # results[j].id

\* a search whose response held several matches of one identifier and which
\* returned two results
C4_Witness ==
    /\ spc = "responded"
    /\ Len(results) > 1
    /\ \E i, j \in 1..Len(response) : i # j /\ MatchId(response[i]) = MatchId(response[j])

\* C5: the result kept for an identifier carries the highest score among the
\* returned matches of that identifier, wherever in the response they stood.
C5_BestScore ==
    spc = "responded" =>
        \A k \in 1..Len(results) :
            /\ Matches(results[k].id) # {}
            /\ \A i \in Matches(results[k].id) : results[k].score >= response[i].score
            /\ \E i \in Matches(results[k].id) : results[k].score = response[i].score

\* a search in which a later match of an identifier outscored an earlier one and
\* the identifier is among the results
C5_Witness ==
    /\ spc = "responded"
    /\ \E i, j \in 1..Len(response) :
        /\ i < j
        /\ MatchId(response[i]) = MatchId(response[j])
        /\ response[i].score < response[j].score
        /\ \E k \in 1..Len(results) : results[k].id = MatchId(response[i])

\* C6 as stated: at most limit results, each scoring strictly more than the next.
C6_StrictlyDescending ==
    spc = "responded" =>
        /\ Len(results) <= req.limit
        /\ \A i \in 1..(Len(results) - 1) : results[i].score > results[i + 1].score

\* C6 amended: at most limit results, none scoring less than the next.
C6_AtMostLimitDescending ==
    spc = "responded" =>
        /\ Len(results) <= req.limit
        /\ \A i \in 1..(Len(results) - 1) : results[i].score >= results[i + 1].score

\* a search that found more identifiers than the limit and returned limit results,
\* two at least
C6_Witness ==
    /\ spc = "responded"
    /\ Cardinality({MatchId(response[i]) : i \in 1..Len(response)}) > req.limit
    /\ Len(results) = req.limit
    /\ Len(results) > 1

\* C7: no result scores less than the next, and results of equal score stand in
\* the order in which their identifiers were first met in the response.
C7_StableOrder ==
    spc = "responded" =>
        \A i, j \in 1..Len(results) :
            i < j =>
                /\ results[i].score >= results[j].score
                /\ results[i].score = results[j].score
                    => (/\ Matches(results[i].id) # {}
                        /\ Matches(results[j].id) # {}
                        /\ FirstSeen(results[i].id) < FirstSeen(results[j].id))

\* a search returning two results of equal score, the first of them built from a
\* point that came later in the response than the second's
C7_Witness ==
    /\ spc = "responded"
    /\ \E i, j \in 1..Len(results) :
        /\ i < j
        /\ results[i].score = results[j].score
        /\ \E a, b \in 1..Len(response) :
            /\ ToString(response[a].id) = results[i].point_id
            /\ ToString(response[b].id) = results[j].point_id
            /\ b < a

\* the threshold the caller of the route supplied, <<>> when none was supplied
Supplied(body) == Get(body, "threshold", <<>>)

\* C8: the route queries the store with the threshold the caller supplied, 0
\* included, and with 0.75 only when the caller supplied none.
C8_CallerThreshold ==
    (spc = "responded" /\ req.via = "route") =>
        sent.score_threshold =
            IF Supplied(req.body) # <<>> THEN Supplied(req.body)[1] ELSE SimilarityThreshold

\* C9: no result scores below the threshold search was asked for, and when no
\* point of the collection reaches it the result is the empty list.
C9_ThresholdExclusion ==
    spc = "responded" =>
        /\ \A k \in 1..Len(results) : results[k].score >= req.threshold
        /\ (\A i \in 1..Len(cands) : cands[i].score < req.threshold) => results = <<>>

\* a search at threshold 0.9 over a collection whose points all score 0.5
C9_Witness ==
    /\ spc = "responded"
    /\ req.threshold = 90
    /\ Len(cands) > 0
    /\ \A i \in 1..Len(cands) : cands[i].score = 50
    /\ results = <<>>

====
